---- MODULE Spec2Model ----
(***************************************************************************)
(* Model of guaritaip/GuaritaIP.py: the GuaritaIP client class.            *)
(*                                                                         *)
(* Python values are modelled as follows.                                  *)
(*   str    a sequence of Unicode code points (naturals)                   *)
(*   bytes  a sequence of naturals in 0..255                               *)
(*   the outcome of evaluating an expression or a call is a record         *)
(*   [kind, val, exc]: kind says what was returned ("bytes", "str",        *)
(*   "list", "True", "False", "datetime") or that an exception was raised  *)
(*   ("raise", with its class name in exc).                                *)
(*                                                                         *)
(* A socket is "open" from socket.socket() until close() is called on it;  *)
(* what a garbage collector does later with an unreferenced socket is not  *)
(* part of the model.  send() is taken to transmit its whole argument.     *)
(* _toBCD (lines 70-71) has no body and is not modelled.                   *)
(***************************************************************************)
EXTENDS Integers, Sequences, FiniteSets, TLC

VARIABLES
    d_address, d_port, access_code, default_timeout,  \* the instance's fields
    sockets,      \* every socket object created so far, in creation order
    active,       \* the threads that call into the instance
    pc,           \* per thread: position inside the running operation
    call,         \* per thread: the public operation called and its arguments
    frame,        \* per thread: the arguments of the running _send_to_device
    tcp_conn,     \* per thread: local tcp_conn of _send_to_device (index in sockets)
    response,     \* per thread: what _send_to_device handed back
    result,       \* per thread: what the public operation handed back
    trace,        \* per thread: the transport calls made by the running operation
    ncalls,       \* number of public operations started so far
    fn, arg, out  \* codec harness: the function applied, its input, its results

vars == <<d_address, d_port, access_code, default_timeout, sockets, active, pc,
          call, frame, tcp_conn, response, result, trace, ncalls, fn, arg, out>>

sessionVars == <<d_address, d_port, access_code, default_timeout>>
clientVars == <<sockets, active, pc, call, frame, tcp_conn, response, result,
                trace, ncalls>>
codecVars == <<fn, arg, out>>

----------------------------------------------------------------------------
(* Bounds of the model *)

\* bytes of a hex payload given to _add_checksum by the codec harness
MaxPayloadBytes == 2
\* hex characters of an input of _remove_extra_byte
MaxStripChars == 6
\* bytes of an input of _bcdDigits
MaxBcdBytes == 2
\* public operations started in one behaviour
MaxCalls == 2

----------------------------------------------------------------------------
(* Python values *)

Ok(k, v) == [kind |-> k, val |-> v, exc |-> ""]
Raise(e) == [kind |-> "raise", val |-> <<>>, exc |-> e]
PyFalse == Ok("False", <<>>)
PyTrue == Ok("True", <<>>)
None == Ok("None", <<>>)

Min(a, b) == IF a < b THEN a ELSE b
Max(a, b) == IF a > b THEN a ELSE b

\* s[i:j] for 0 <= i, 0 <= j
Slice(s, i, j) == SubSeq(s, i + 1, Min(j, Len(s)))
\* s[i:]
SliceFrom(s, i) == SubSeq(s, i + 1, Len(s))
\* s[-2:]
SliceLast2(s) == SubSeq(s, Max(1, Len(s) - 1), Len(s))

RECURSIVE Concat(_)
\* ''.join(list of str)
Concat(ss) == IF ss = <<>> THEN <<>> ELSE Head(ss) \o Concat(Tail(ss))

RECURSIVE SumSeq(_)
SumSeq(s) == IF s = <<>> THEN 0 ELSE Head(s) + SumSeq(Tail(s))

\* code points used below
CH_0 == 48
CH_x == 120

IsDecChar(c) == c \in 48..57
IsHexChar(c) == c \in 48..57 \/ c \in 97..102 \/ c \in 65..70
HexVal(c) == IF c \in 48..57 THEN c - 48
             ELSE IF c \in 97..102 THEN c - 87
             ELSE c - 55
HexChar(v) == IF v < 10 THEN 48 + v ELSE 87 + v

RECURSIVE HexDigits(_)
HexDigits(n) == IF n < 16 THEN <<HexChar(n)>>
                ELSE HexDigits(n \div 16) \o <<HexChar(n % 16)>>
\* hex(n), n >= 0: "0x" and the lowercase hexadecimal digits
hex(n) == <<CH_0, CH_x>> \o HexDigits(n)

RECURSIVE DecDigits(_)
DecDigits(n) == IF n < 10 THEN <<48 + n>>
                ELSE DecDigits(n \div 10) \o <<48 + (n % 10)>>
\* str(n)
str(n) == IF n < 0 THEN <<45>> \o DecDigits(-n) ELSE DecDigits(n)

RECURSIVE lstrip(_, _)
\* s.lstrip(chars): drop leading characters that are in chars
lstrip(s, chars) == IF s # <<>> /\ Head(s) \in chars THEN lstrip(Tail(s), chars)
                    ELSE s

RECURSIVE zfill(_, _)
\* s.zfill(width) of an unsigned string
zfill(s, width) == IF Len(s) >= width THEN s ELSE zfill(<<CH_0>> \o s, width)

RECURSIVE ParseHex(_, _)
ParseHex(s, acc) == IF s = <<>> THEN acc
                    ELSE ParseHex(Tail(s), 16 * acc + HexVal(Head(s)))
RECURSIVE ParseDec(_, _)
ParseDec(s, acc) == IF s = <<>> THEN acc
                    ELSE ParseDec(Tail(s), 10 * acc + (Head(s) - 48))

\* int(s, 16) and int(s) on strings without sign, blank, underscore or prefix:
\* the value, or -1 where Python raises ValueError
int16(s) == IF s # <<>> /\ \A i \in 1..Len(s) : IsHexChar(s[i])
            THEN ParseHex(s, 0) ELSE -1
int10(s) == IF s # <<>> /\ \A i \in 1..Len(s) : IsDecChar(s[i])
            THEN ParseDec(s, 0) ELSE -1

\* binascii.a2b_hex(s)
a2b_hex(s) ==
    IF Len(s) % 2 # 0 \/ \E i \in 1..Len(s) : ~IsHexChar(s[i])
    THEN Raise("binascii.Error")
    ELSE Ok("bytes", [k \in 1..(Len(s) \div 2) |->
                         16 * HexVal(s[2 * k - 1]) + HexVal(s[2 * k])])

----------------------------------------------------------------------------
(* Frame codec *)

\* ChecksumText without the cs > 255 branch of line 33
ChecksumTextNoWrap(cs) == zfill(lstrip(hex(cs), {CH_0, CH_x}), 2)

\* the checksum text computed at lines 33-36, as line 37 pads it
ChecksumText(cs) ==
    zfill(IF cs > 255 THEN SliceLast2(hex(cs)) ELSE lstrip(hex(cs), {CH_0, CH_x}), 2)

_add_checksum(input_hex) ==
    LET nchunks == (Len(input_hex) + 1) \div 2
        chunk(k) == Slice(input_hex, 2 * (k - 1), 2 * k)
        cs == SumSeq([k \in 1..nchunks |-> int16(chunk(k))])
    IN  IF \E k \in 1..nchunks : int16(chunk(k)) = -1
        THEN Raise("ValueError")
        ELSE a2b_hex(input_hex \o ChecksumText(cs))

\* _remove_extra_byte comparing with the second byte, input_hex[2:4]
_remove_extra_byte_second(input_hex) ==
    IF Slice(input_hex, 0, 2) = Slice(input_hex, 2, 4)
       /\ Slice(input_hex, 0, 2) = <<CH_0, CH_0>>
    THEN SliceFrom(input_hex, 2)
    ELSE input_hex

_remove_extra_byte(input_hex) ==
    IF Slice(input_hex, 0, 2) = Slice(input_hex, 2, 2)
       /\ Slice(input_hex, 0, 2) = <<CH_0, CH_0>>
    THEN SliceFrom(input_hex, 2)
    ELSE input_hex

RECURSIVE BcdNibbles(_)
\* the nibbles the two nested loops of _bcdDigits visit, in order
BcdNibbles(chars) ==
    IF chars = <<>> THEN <<>>
    ELSE <<Head(chars) \div 16, Head(chars) % 16>> \o BcdNibbles(Tail(chars))

RECURSIVE BcdYieldSkip(_)
\* BcdYield with continue in place of return at line 67
BcdYieldSkip(vals) ==
    IF vals = <<>> THEN <<>>
    ELSE IF Head(vals) = 15 THEN BcdYieldSkip(Tail(vals))
    ELSE <<str(Head(vals))>> \o BcdYieldSkip(Tail(vals))

RECURSIVE BcdYield(_)
\* what the loops yield over a nibble sequence: return at the first 0xF
BcdYield(vals) ==
    IF vals = <<>> THEN <<>>
    ELSE IF Head(vals) = 15 THEN <<>>
    ELSE <<str(Head(vals))>> \o BcdYield(Tail(vals))

\* list(self._bcdDigits(chars)); chars is a sequence of characters
_bcdDigits(chars) == BcdYield(BcdNibbles(chars))

----------------------------------------------------------------------------
(* Reply decoding of read_datetime *)

IsCont(b) == b \in 128..191

\* number of bytes of the UTF-8 sequence that starts b, 0 if b starts none
Utf8Len(b) ==
    IF Len(b) >= 1 /\ b[1] < 128 THEN 1
    ELSE IF Len(b) >= 2 /\ b[1] \in 194..223 /\ IsCont(b[2]) THEN 2
    ELSE IF Len(b) >= 3 /\ b[1] \in 224..239 /\ IsCont(b[2]) /\ IsCont(b[3])
            /\ (b[1] = 224 => b[2] >= 160) /\ (b[1] = 237 => b[2] <= 159) THEN 3
    ELSE IF Len(b) >= 4 /\ b[1] \in 240..244 /\ IsCont(b[2]) /\ IsCont(b[3])
            /\ IsCont(b[4])
            /\ (b[1] = 240 => b[2] >= 144) /\ (b[1] = 244 => b[2] <= 143) THEN 4
    ELSE 0

Utf8CodePoint(b, n) ==
    IF n = 1 THEN b[1]
    ELSE IF n = 2 THEN (b[1] % 32) * 64 + (b[2] % 64)
    ELSE IF n = 3 THEN (b[1] % 16) * 4096 + (b[2] % 64) * 64 + (b[3] % 64)
    ELSE (b[1] % 8) * 262144 + (b[2] % 64) * 4096 + (b[3] % 64) * 64 + (b[4] % 64)

RECURSIVE Utf8Valid(_)
Utf8Valid(b) == b = <<>> \/ (Utf8Len(b) > 0 /\ Utf8Valid(SliceFrom(b, Utf8Len(b))))

RECURSIVE Utf8Chars(_)
Utf8Chars(b) ==
    IF b = <<>> THEN <<>>
    ELSE <<Utf8CodePoint(b, Utf8Len(b))>> \o Utf8Chars(SliceFrom(b, Utf8Len(b)))

\* str(b, 'utf_8'): strict decoding
utf8_decode(b) == IF Utf8Valid(b) THEN Ok("str", Utf8Chars(b))
                  ELSE Raise("UnicodeDecodeError")

\* bytes.decode("ascii"): strict decoding
ascii_decode(b) == IF \A i \in 1..Len(b) : b[i] < 128 THEN Ok("str", b)
                   ELSE Raise("UnicodeDecodeError")

IsLeap(y) == (y % 4 = 0 /\ y % 100 # 0) \/ y % 400 = 0
DaysInMonth(y, m) == IF m = 2 THEN (IF IsLeap(y) THEN 29 ELSE 28)
                     ELSE IF m \in {4, 6, 9, 11} THEN 30 ELSE 31

\* datetime(year, month, day, hour, minute, second)
datetime(year, month, day, hour, minute, second) ==
    IF year \in 1..9999 /\ month \in 1..12 /\ day \in 1..DaysInMonth(year, month)
       /\ hour \in 0..23 /\ minute \in 0..59 /\ second \in 0..59
    THEN Ok("datetime", <<year, month, day, hour, minute, second>>)
    ELSE Raise("ValueError")

\* bool(x) of what _send_to_device returns
Truthy(resp) == resp.kind = "bytes" /\ resp.val # <<>>

\* lines 200-211 of read_datetime, from the value _send_to_device returned
DecodeDatetime(resp) ==
    IF Truthy(resp)
    THEN LET text == utf8_decode(Slice(resp.val, 2, 8))
             digits == _bcdDigits(text.val)
             year == int10(<<50, 48>> \o Concat(Slice(digits, 4, 6)))
             month == int10(Concat(Slice(digits, 2, 4)))
             day == int10(Concat(Slice(digits, 0, 2)))
             hour == int10(Concat(Slice(digits, 6, 8)))
             minute == int10(Concat(Slice(digits, 8, 10)))
             second == int10(Concat(SliceFrom(digits, 10)))
         IN  IF text.kind = "raise" THEN text
             ELSE IF -1 \in {year, month, day, hour, minute, second}
             THEN Raise("ValueError")
             ELSE datetime(year, month, day, hour, minute, second)
    ELSE datetime(1, 1, 1, 0, 0, 0)

----------------------------------------------------------------------------
(* The client: public operations and _send_to_device *)

Threads == {1, 2}

\* a public operation and its arguments (arguments an operation lacks are 0 / "")
Op(op, which_row, row2, row3, timeout, dev_type, dev_can_address) ==
    [op |-> op, which_row |-> which_row, row2 |-> row2, row3 |-> row3,
     timeout |-> timeout, dev_type |-> dev_type,
     dev_can_address |-> dev_can_address]
NoCall == Op("none", 0, <<>>, <<>>, 0, 0, 0)

\* the arguments of one _send_to_device call; nth counts the calls the running
\* operation has made
Frame(message, response_size, conn_timeout, nth) ==
    [message |-> message, response_size |-> response_size,
     conn_timeout |-> conn_timeout, nth |-> nth]
NoFrame == Frame(<<>>, 0, 0, 0)

\* one transport call on socket sock: socket, settimeout, connect, send, recv, close
Event(ev, sock, data, n, outcome) ==
    [ev |-> ev, sock |-> sock, data |-> data, n |-> n, outcome |-> outcome]

RECURSIVE Utf8Encode(_)
\* s.encode("utf-8")
Utf8Encode(s) ==
    IF s = <<>> THEN <<>>
    ELSE LET c == Head(s)
         IN  (IF c < 128 THEN <<c>>
              ELSE IF c < 2048 THEN <<192 + (c \div 64), 128 + (c % 64)>>
              ELSE IF c < 65536
                   THEN <<224 + (c \div 4096), 128 + ((c \div 64) % 64), 128 + (c % 64)>>
              ELSE <<240 + (c \div 262144), 128 + ((c \div 4096) % 64),
                     128 + ((c \div 64) % 64), 128 + (c % 64)>>)
             \o Utf8Encode(Tail(s))

\* "if timeout == 0: timeout = self.default_timeout"
EffectiveTimeout(timeout) == IF timeout = 0 THEN default_timeout ELSE timeout

\* what an operation does next: call _send_to_device with a frame, or finish
Send(f) == [go |-> "send", frame |-> f, result |-> None]
Done(r) == [go |-> "done", frame |-> NoFrame, result |-> r]

S0001 == <<48, 48, 48, 49>>
S0002 == <<48, 48, 48, 50>>
S003d == <<48, 48, 51, 100>>

\* write_id_str_begin with the length test of line 126 on row2 alone
write_id_str_begin_row2(c) ==
    LET timeout == EffectiveTimeout(c.timeout)
        msg_row2 == _add_checksum(S0001 \o c.row2)
        msg_row3 == _add_checksum(S0002 \o (IF c.which_row = 0 THEN c.row3 ELSE c.row2))
    IN  IF Len(c.row2) > 20 THEN Done(PyFalse)
        ELSE IF msg_row2.kind = "raise" THEN Done(msg_row2)
        ELSE IF c.which_row = 0
             THEN (IF msg_row3.kind = "raise" THEN Done(msg_row3)
                   ELSE Send(Frame(msg_row2.val, 3, timeout, 1)))
        ELSE IF c.which_row = 2 THEN Send(Frame(msg_row2.val, 3, timeout, 1))
        ELSE IF c.which_row = 3
             THEN (IF msg_row3.kind = "raise" THEN Done(msg_row3)
                   ELSE Send(Frame(msg_row3.val, 3, timeout, 1)))
        ELSE Done(PyFalse)

\* write_id_str up to its first _send_to_device call (lines 126-149, 153-154)
write_id_str_begin(c) ==
    LET timeout == EffectiveTimeout(c.timeout)
        msg_row2 == _add_checksum(S0001 \o c.row2)
        msg_row3 == _add_checksum(S0002 \o (IF c.which_row = 0 THEN c.row3 ELSE c.row2))
    IN  IF Len(c.row2) > 20 \/ Len(c.row3) > 20 THEN Done(PyFalse)
        ELSE IF msg_row2.kind = "raise" THEN Done(msg_row2)
        ELSE IF c.which_row = 0
             THEN (IF msg_row3.kind = "raise" THEN Done(msg_row3)
                   ELSE Send(Frame(msg_row2.val, 3, timeout, 1)))
        ELSE IF c.which_row = 2 THEN Send(Frame(msg_row2.val, 3, timeout, 1))
        ELSE IF c.which_row = 3
             THEN (IF msg_row3.kind = "raise" THEN Done(msg_row3)
                   ELSE Send(Frame(msg_row3.val, 3, timeout, 1)))
        ELSE Done(PyFalse)

\* write_id_str from the return of a _send_to_device call (lines 135-152)
write_id_str_resume(c, f, resp) ==
    IF c.which_row = 0
    THEN (IF f.nth = 1
          THEN (IF resp = Ok("bytes", <<0, 1, 1>>)
                THEN Send(Frame(_add_checksum(S0002 \o c.row3).val, 3,
                                f.conn_timeout, 2))
                ELSE Done(PyFalse))
          ELSE (IF resp = Ok("bytes", <<0, 2, 2>>) THEN Done(PyTrue)
                ELSE Done(PyFalse)))
    ELSE IF c.which_row = 2
    THEN (IF resp = Ok("bytes", <<0, 1, 1>>) THEN Done(PyTrue) ELSE Done(PyFalse))
    ELSE (IF resp = Ok("bytes", <<0, 2, 2>>) THEN Done(PyTrue) ELSE Done(PyFalse))

read_id_str_begin(c) == Send(Frame(<<0, 3, 3>>, 44, EffectiveTimeout(c.timeout), 1))
read_id_str_resume(resp) == Done(resp)

write_datetime_begin(c) == Send(Frame(<<0, 11>>, 3, EffectiveTimeout(c.timeout), 1))
write_datetime_resume(resp) ==
    IF resp = Ok("bytes", <<0, 11, 11>>) THEN Done(PyTrue) ELSE Done(PyFalse)

read_datetime_begin(c) == Send(Frame(<<0, 12, 12>>, 10, EffectiveTimeout(c.timeout), 1))
read_datetime_resume(resp) == Done(DecodeDatetime(resp))

reboot_begin(c) == Send(Frame(<<0, 18, 18>>, 2, 3, 1))
reboot_resume(resp) == Done(resp)

reset_begin(c) == Send(Frame(<<0, 24, 24>>, 3, EffectiveTimeout(c.timeout), 1))
\* reset_resume accepting any non-empty reply
reset_resume_any(f, resp) == IF Truthy(resp) THEN Done(PyTrue) ELSE Done(PyFalse)

reset_resume(f, resp) ==
    IF resp = Ok("bytes", f.message) THEN Done(PyTrue) ELSE Done(PyFalse)

refresh_rx_begin(c) == Send(Frame(<<0, 29, 29>>, 4, c.timeout, 1))
refresh_rx_resume(resp) ==
    IF resp = Ok("bytes", <<0, 29, 0, 29>>) THEN Done(PyTrue) ELSE Done(PyFalse)

read_rxfm_version_begin(c) ==
    LET dev_type == <<CH_0>> \o str(c.dev_type)
        dev_can_address == <<CH_0>> \o str(c.dev_can_address - 1)
        msg == _add_checksum(S003d \o dev_type \o dev_can_address)
    IN  IF msg.kind = "raise" THEN Done(msg)
        ELSE Send(Frame(msg.val, 11, EffectiveTimeout(c.timeout), 1))
read_rxfm_version_resume(resp) ==
    IF Truthy(resp) THEN Done(ascii_decode(Slice(resp.val, 4, 9)))
    ELSE Done(Ok("str", <<>>))

\* the operation's code after _send_to_device returned resp
Resume(c, f, resp) ==
    CASE c.op = "write_id_str" -> write_id_str_resume(c, f, resp)
      [] c.op = "read_id_str" -> read_id_str_resume(resp)
      [] c.op = "write_datetime" -> write_datetime_resume(resp)
      [] c.op = "read_datetime" -> read_datetime_resume(resp)
      [] c.op = "reboot" -> reboot_resume(resp)
      [] c.op = "reset" -> reset_resume(f, resp)
      [] c.op = "refresh_rx" -> refresh_rx_resume(resp)
      [] c.op = "read_rxfm_version" -> read_rxfm_version_resume(resp)

----------------------------------------------------------------------------
(* Inputs of the operations and behaviour of the device *)

\* per-call timeout arguments: omitted (0) or given
Timeouts == {0, 2}
\* "", "4142", "Hi", "abc" and a string of 21 characters
RowSamples == {<<>>, <<52, 49, 52, 50>>, <<72, 105>>, <<97, 98, 99>>,
               [i \in 1..21 |-> 52]}
AccessCodes == {<<>>, <<49, 233>>}
DefaultTimeouts == {1, 4}

BcdByte(n) == 16 * (n \div 10) + (n % 10)
\* a full 10-byte reply to PC 12 carrying the given two-digit fields
DatetimeReply(dd, mm, yy, hh, mi, ss) ==
    <<0, 12, BcdByte(dd), BcdByte(mm), BcdByte(yy), BcdByte(hh), BcdByte(mi),
      BcdByte(ss), 0, 12>>
\* r with the nibble at position k (0..11) of its date field set to 0xF
WithTerminator(r, k) ==
    LET i == 3 + (k \div 2)
    IN  [r EXCEPT ![i] = IF k % 2 = 0 THEN 240 + (r[i] % 16)
                         ELSE 16 * (r[i] \div 16) + 15]

\* full replies the device may send to a command, by command code
DeviceReplies(message) ==
    CASE message[2] = 1 -> {<<0, 1, 1>>, <<0, 1, 0>>}
      [] message[2] = 2 -> {<<0, 2, 2>>, <<0, 2, 0>>}
      [] message[2] = 3 -> {<<0, 3>> \o [i \in 1..42 |-> 65]}
      [] message[2] = 11 -> {<<0, 11, 11>>, <<0, 11, 0>>}
      [] message[2] = 12 -> {DatetimeReply(5, 9, 23, 14, 30, 0),
                             DatetimeReply(5, 9, 99, 14, 30, 0),
                             DatetimeReply(31, 2, 23, 14, 30, 0),
                             WithTerminator(DatetimeReply(5, 9, 23, 14, 30, 0), 11)}
      [] message[2] = 18 -> {<<0, 18>>}
      [] message[2] = 24 -> {<<0, 24, 24>>, <<0, 24, 0>>, <<0, 24, 24, 0>>}
      [] message[2] = 29 -> {<<0, 29, 0, 29>>, <<0, 29, 1, 29>>}
      [] message[2] = 61 -> {<<0, 61, 1, 0, 50, 48, 48, 53, 121, 0, 0>>,
                             <<0, 61, 1, 0, 50, 48, 48, 53, 233, 0, 0>>}
\* acknowledgments of the access code
DeviceAcks == {<<79, 75>>}

\* what one recv(bufsize) can return of the bytes the peer sent: nothing (peer
\* closed), a part, or as much as fits
Received(sent, bufsize) ==
    LET m == Min(bufsize, Len(sent))
    IN  {SubSeq(sent, 1, k) : k \in {0, Min(2, m), m}}

\* the exception a blocked socket call raises when its time is up
TimeoutError(conn_timeout) ==
    IF conn_timeout = 0 THEN "BlockingIOError" ELSE "socket.timeout"

----------------------------------------------------------------------------
(* Actions of the client *)

CanCall(t) == t \in active /\ pc[t] \in {"idle", "done"} /\ ncalls < MaxCalls

\* Begin keeping a per-call timeout in self.default_timeout
Begin_keeping(t, c, b) ==
    /\ call' = [call EXCEPT ![t] = c]
    /\ frame' = [frame EXCEPT ![t] = b.frame]
    /\ result' = [result EXCEPT ![t] = b.result]
    /\ response' = [response EXCEPT ![t] = None]
    /\ trace' = [trace EXCEPT ![t] = <<>>]
    /\ tcp_conn' = [tcp_conn EXCEPT ![t] = 0]
    /\ pc' = [pc EXCEPT ![t] = IF b.go = "send" THEN "socket" ELSE "done"]
    /\ ncalls' = ncalls + 1
    /\ default_timeout' = IF c.timeout # 0 THEN c.timeout ELSE default_timeout
    /\ UNCHANGED <<sockets, active, d_address, d_port, access_code, codecVars>>

\* thread t enters operation c, which runs up to b
Begin(t, c, b) ==
    /\ call' = [call EXCEPT ![t] = c]
    /\ frame' = [frame EXCEPT ![t] = b.frame]
    /\ result' = [result EXCEPT ![t] = b.result]
    /\ response' = [response EXCEPT ![t] = None]
    /\ trace' = [trace EXCEPT ![t] = <<>>]
    /\ tcp_conn' = [tcp_conn EXCEPT ![t] = 0]
    /\ pc' = [pc EXCEPT ![t] = IF b.go = "send" THEN "socket" ELSE "done"]
    /\ ncalls' = ncalls + 1
    /\ UNCHANGED <<sockets, active, sessionVars, codecVars>>

write_id_str(t) ==
    /\ CanCall(t)
    /\ \E which_row \in 0..3, row2 \in RowSamples, row3 \in RowSamples,
          timeout \in Timeouts :
          LET c == Op("write_id_str", which_row, row2, row3, timeout, 0, 0)
          IN  Begin(t, c, write_id_str_begin(c))

read_id_str(t) ==
    /\ CanCall(t)
    /\ \E timeout \in Timeouts :
          LET c == Op("read_id_str", 0, <<>>, <<>>, timeout, 0, 0)
          IN  Begin(t, c, read_id_str_begin(c))

write_datetime(t) ==
    /\ CanCall(t)
    /\ \E timeout \in Timeouts :
          LET c == Op("write_datetime", 0, <<>>, <<>>, timeout, 0, 0)
          IN  Begin(t, c, write_datetime_begin(c))

read_datetime(t) ==
    /\ CanCall(t)
    /\ \E timeout \in Timeouts :
          LET c == Op("read_datetime", 0, <<>>, <<>>, timeout, 0, 0)
          IN  Begin(t, c, read_datetime_begin(c))

reboot(t) ==
    /\ CanCall(t)
    /\ LET c == Op("reboot", 0, <<>>, <<>>, 0, 0, 0)
       IN  Begin(t, c, reboot_begin(c))

reset(t) ==
    /\ CanCall(t)
    /\ \E timeout \in Timeouts :
          LET c == Op("reset", 0, <<>>, <<>>, timeout, 0, 0)
          IN  Begin(t, c, reset_begin(c))

\* the timeout parameter of refresh_rx defaults to 15
refresh_rx(t) ==
    /\ CanCall(t)
    /\ \E timeout \in Timeouts \cup {15} :
          LET c == Op("refresh_rx", 0, <<>>, <<>>, timeout, 0, 0)
          IN  Begin(t, c, refresh_rx_begin(c))

read_rxfm_version(t) ==
    /\ CanCall(t)
    /\ \E dev_type \in {1, 7}, dev_can_address \in {1, 8}, timeout \in Timeouts :
          LET c == Op("read_rxfm_version", 0, <<>>, <<>>, timeout, dev_type,
                      dev_can_address)
          IN  Begin(t, c, read_rxfm_version_begin(c))

Log(t, e) == trace' = [trace EXCEPT ![t] = Append(@, e)]

\* _send_to_device returns v to the operation
Returns(t, v) ==
    /\ response' = [response EXCEPT ![t] = v]
    /\ pc' = [pc EXCEPT ![t] = "return"]
    /\ UNCHANGED result

\* an exception leaves _send_to_device and the operation that called it
Raises(t, e) ==
    /\ result' = [result EXCEPT ![t] = Raise(e)]
    /\ pc' = [pc EXCEPT ![t] = "done"]
    /\ UNCHANGED response

\* socket_socket keeping the socket in one attribute shared by all callers
socket_socket_shared(t) ==
    /\ t \in active /\ pc[t] = "socket"
    /\ sockets' = Append(sockets, [owner |-> t, state |-> "open"])
    /\ tcp_conn' = [u \in Threads |-> Len(sockets) + 1]
    /\ Log(t, Event("settimeout", Len(sockets) + 1, <<>>, frame[t].conn_timeout, "ok"))
    /\ pc' = [pc EXCEPT ![t] = "connect"]
    /\ UNCHANGED <<active, call, frame, response, result, ncalls, sessionVars,
                   codecVars>>

\* lines 89-91: socket.socket(), settimeout(conn_timeout)
socket_socket(t) ==
    /\ t \in active /\ pc[t] = "socket"
    /\ sockets' = Append(sockets, [owner |-> t, state |-> "open"])
    /\ tcp_conn' = [tcp_conn EXCEPT ![t] = Len(sockets) + 1]
    /\ Log(t, Event("settimeout", Len(sockets) + 1, <<>>, frame[t].conn_timeout, "ok"))
    /\ pc' = [pc EXCEPT ![t] = "connect"]
    /\ UNCHANGED <<active, call, frame, response, result, ncalls, sessionVars,
                   codecVars>>

\* lines 92-95: connect; socket.timeout is caught, any other error is not
connect(t) ==
    /\ t \in active /\ pc[t] = "connect"
    /\ \/ /\ Log(t, Event("connect", tcp_conn[t], <<>>, 0, "ok"))
          /\ pc' = [pc EXCEPT ![t] = IF access_code # <<>> THEN "handshake" ELSE "send"]
          /\ UNCHANGED <<response, result>>
       \/ /\ frame[t].conn_timeout # 0
          /\ Log(t, Event("connect", tcp_conn[t], <<>>, 0, "socket.timeout"))
          /\ Returns(t, PyFalse)
       \/ /\ \E e \in {"ConnectionRefusedError"}
                    \cup (IF frame[t].conn_timeout = 0 THEN {"BlockingIOError"} ELSE {}) :
                /\ Log(t, Event("connect", tcp_conn[t], <<>>, 0, e))
                /\ Raises(t, e)
    /\ UNCHANGED <<sockets, active, call, frame, tcp_conn, ncalls, sessionVars,
                   codecVars>>

\* line 97: send the access code
send_access_code(t) ==
    /\ t \in active /\ pc[t] = "handshake"
    /\ Log(t, Event("send", tcp_conn[t], Utf8Encode(access_code), 0, "ok"))
    /\ pc' = [pc EXCEPT ![t] = "ack"]
    /\ UNCHANGED <<sockets, active, call, frame, tcp_conn, response, result,
                   ncalls, sessionVars, codecVars>>

\* recv_ack without the test of lines 99-100
recv_ack_unchecked(t) ==
    /\ t \in active /\ pc[t] = "ack"
    /\ \/ \E d \in DeviceAcks : \E ac_response \in Received(d, 12) :
             /\ Log(t, Event("recv", tcp_conn[t], ac_response, 12, "ok"))
             /\ pc' = [pc EXCEPT ![t] = "send"]
             /\ UNCHANGED <<response, result>>
       \/ /\ Log(t, Event("recv", tcp_conn[t], <<>>, 12, TimeoutError(frame[t].conn_timeout)))
          /\ Raises(t, TimeoutError(frame[t].conn_timeout))
    /\ UNCHANGED <<sockets, active, call, frame, tcp_conn, ncalls, sessionVars,
                   codecVars>>

\* lines 98-100: read the acknowledgment, return False if it is empty
recv_ack(t) ==
    /\ t \in active /\ pc[t] = "ack"
    /\ \/ \E d \in DeviceAcks : \E ac_response \in Received(d, 12) :
             /\ Log(t, Event("recv", tcp_conn[t], ac_response, 12, "ok"))
             /\ IF ac_response = <<>>
                THEN Returns(t, PyFalse)
                ELSE /\ pc' = [pc EXCEPT ![t] = "send"]
                     /\ UNCHANGED <<response, result>>
       \/ /\ Log(t, Event("recv", tcp_conn[t], <<>>, 12, TimeoutError(frame[t].conn_timeout)))
          /\ Raises(t, TimeoutError(frame[t].conn_timeout))
    /\ UNCHANGED <<sockets, active, call, frame, tcp_conn, ncalls, sessionVars,
                   codecVars>>

\* line 101: send the command message
send_message(t) ==
    /\ t \in active /\ pc[t] = "send"
    /\ Log(t, Event("send", tcp_conn[t], frame[t].message, 0, "ok"))
    /\ pc' = [pc EXCEPT ![t] = "recv"]
    /\ UNCHANGED <<sockets, active, call, frame, tcp_conn, response, result,
                   ncalls, sessionVars, codecVars>>

\* recv_response reading again while fewer than response_size bytes came
recv_response_again(t) ==
    /\ t \in active /\ pc[t] = "recv"
    /\ \/ \E d \in DeviceReplies(frame[t].message) :
          \E r \in Received(d, frame[t].response_size) :
             /\ Log(t, Event("recv", tcp_conn[t], r, frame[t].response_size, "ok"))
             /\ response' = [response EXCEPT ![t] = Ok("bytes", r)]
             /\ pc' = [pc EXCEPT ![t] = IF Len(r) < frame[t].response_size
                                        THEN "recv" ELSE "close"]
             /\ UNCHANGED result
       \/ /\ Log(t, Event("recv", tcp_conn[t], <<>>, frame[t].response_size,
                          TimeoutError(frame[t].conn_timeout)))
          /\ Raises(t, TimeoutError(frame[t].conn_timeout))
    /\ UNCHANGED <<sockets, active, call, frame, tcp_conn, ncalls, sessionVars,
                   codecVars>>

\* line 102: one read of up to response_size bytes
recv_response(t) ==
    /\ t \in active /\ pc[t] = "recv"
    /\ \/ \E d \in DeviceReplies(frame[t].message) :
          \E r \in Received(d, frame[t].response_size) :
             /\ Log(t, Event("recv", tcp_conn[t], r, frame[t].response_size, "ok"))
             /\ response' = [response EXCEPT ![t] = Ok("bytes", r)]
             /\ pc' = [pc EXCEPT ![t] = "close"]
             /\ UNCHANGED result
       \/ /\ Log(t, Event("recv", tcp_conn[t], <<>>, frame[t].response_size,
                          TimeoutError(frame[t].conn_timeout)))
          /\ Raises(t, TimeoutError(frame[t].conn_timeout))
    /\ UNCHANGED <<sockets, active, call, frame, tcp_conn, ncalls, sessionVars,
                   codecVars>>

\* lines 103-104: close the socket and return the response
close(t) ==
    /\ t \in active /\ pc[t] = "close"
    /\ sockets' = [sockets EXCEPT ![tcp_conn[t]].state = "closed"]
    /\ Log(t, Event("close", tcp_conn[t], <<>>, 0, "ok"))
    /\ pc' = [pc EXCEPT ![t] = "return"]
    /\ UNCHANGED <<active, call, frame, tcp_conn, response, result, ncalls,
                   sessionVars, codecVars>>

\* the operation goes on from the value _send_to_device returned
op_return(t) ==
    /\ t \in active /\ pc[t] = "return"
    /\ LET b == Resume(call[t], frame[t], response[t])
       IN  /\ pc' = [pc EXCEPT ![t] = IF b.go = "send" THEN "socket" ELSE "done"]
           /\ frame' = [frame EXCEPT ![t] = IF b.go = "send" THEN b.frame ELSE @]
           /\ result' = [result EXCEPT ![t] = b.result]
    /\ UNCHANGED <<sockets, active, call, tcp_conn, response, trace, ncalls,
                   sessionVars, codecVars>>

Init ==
    /\ d_address = "192.168.0.10" /\ d_port = 9000
    /\ access_code \in AccessCodes
    /\ default_timeout \in DefaultTimeouts
    /\ sockets = <<>>
    /\ active = {1}
    /\ pc = [t \in Threads |-> "idle"]
    /\ call = [t \in Threads |-> NoCall]
    /\ frame = [t \in Threads |-> NoFrame]
    /\ tcp_conn = [t \in Threads |-> 0]
    /\ response = [t \in Threads |-> None]
    /\ result = [t \in Threads |-> None]
    /\ trace = [t \in Threads |-> <<>>]
    /\ ncalls = 0
    /\ fn = "none" /\ arg = <<>> /\ out = <<>>

Next ==
    \E t \in Threads :
        \/ write_id_str(t) \/ read_id_str(t) \/ write_datetime(t)
        \/ read_datetime(t) \/ reboot(t) \/ reset(t) \/ refresh_rx(t)
        \/ read_rxfm_version(t)
        \/ socket_socket(t) \/ connect(t) \/ send_access_code(t) \/ recv_ack(t)
        \/ send_message(t) \/ recv_response(t) \/ close(t) \/ op_return(t)

Spec == Init /\ [][Next]_vars

\* Two threads calling operations of one instance at the same time: tcp_conn,
\* response and every other local of lines 89-104 belong to the calling thread,
\* the instance attributes are only read.
InitConc ==
    /\ d_address = "192.168.0.10" /\ d_port = 9000
    /\ access_code = <<49, 233>>
    /\ default_timeout \in DefaultTimeouts
    /\ sockets = <<>>
    /\ active = Threads
    /\ pc = [t \in Threads |-> "idle"]
    /\ call = [t \in Threads |-> NoCall]
    /\ frame = [t \in Threads |-> NoFrame]
    /\ tcp_conn = [t \in Threads |-> 0]
    /\ response = [t \in Threads |-> None]
    /\ result = [t \in Threads |-> None]
    /\ trace = [t \in Threads |-> <<>>]
    /\ ncalls = 0
    /\ fn = "none" /\ arg = <<>> /\ out = <<>>

NextConc ==
    \E t \in Threads :
        \/ reboot(t) \/ reset(t)
        \/ socket_socket(t) \/ connect(t) \/ send_access_code(t) \/ recv_ack(t)
        \/ send_message(t) \/ recv_response(t) \/ close(t) \/ op_return(t)

SpecConc == InitConc /\ [][NextConc]_vars

----------------------------------------------------------------------------
(* Codec harness: one codec function applied to one input *)

\* strings of at most n characters over an alphabet
Strings(alphabet, n) == UNION {[1..k -> alphabet] : k \in 0..n}

\* '0' '1' '8' 'f' 'F' and the non-hexadecimal 'H'
ChecksumAlphabet == {48, 49, 56, 102, 70, 72}
ChecksumInputs == Strings(ChecksumAlphabet, 2 * MaxPayloadBytes)

\* '0' '1' 'a'
StripAlphabet == {48, 49, 97}
StripInputs == Strings(StripAlphabet, MaxStripChars)

BcdNibbleSamples == {0, 1, 9, 10, 15}
BcdInputs == Strings({16 * h + l : h, l \in BcdNibbleSamples}, MaxBcdBytes)

FullReplies ==
    {DatetimeReply(dd, mm, yy, hh, mi, ss) :
        dd \in {0, 1, 28, 29, 30, 31}, mm \in {1, 2, 4, 9, 12, 13}, yy \in 0..99,
        hh \in {0, 14, 23, 24}, mi \in {0, 30, 59}, ss \in {0, 59}}
BaseReplies == {DatetimeReply(5, 9, 23, 14, 30, 0), DatetimeReply(31, 12, 79, 23, 59, 59)}
DamagedReplies ==
    {SubSeq(r, 1, n) : r \in BaseReplies, n \in 0..9}
    \cup {WithTerminator(r, k) : r \in BaseReplies, k \in 0..11}
DatetimeInputs ==
    {Ok("bytes", r) : r \in FullReplies \cup DamagedReplies} \cup {PyFalse}

ClientIdle ==
    /\ d_address = "192.168.0.10" /\ d_port = 9000
    /\ access_code = <<>> /\ default_timeout = 1
    /\ sockets = <<>>
    /\ active = {}
    /\ pc = [t \in Threads |-> "idle"]
    /\ call = [t \in Threads |-> NoCall]
    /\ frame = [t \in Threads |-> NoFrame]
    /\ tcp_conn = [t \in Threads |-> 0]
    /\ response = [t \in Threads |-> None]
    /\ result = [t \in Threads |-> None]
    /\ trace = [t \in Threads |-> <<>>]
    /\ ncalls = 0

InitCodec ==
    /\ ClientIdle
    /\ out = <<>>
    /\ \/ fn = "_add_checksum" /\ arg \in ChecksumInputs
       \/ fn = "_remove_extra_byte" /\ arg \in StripInputs
       \/ fn = "_bcdDigits" /\ arg \in BcdInputs
       \/ fn = "read_datetime" /\ arg \in DatetimeInputs

Apply_add_checksum ==
    /\ fn = "_add_checksum" /\ out = <<>>
    /\ out' = <<_add_checksum(arg)>>
    /\ UNCHANGED <<fn, arg, sessionVars, clientVars>>

\* applied to the input, then to what it returned
Apply_remove_extra_byte ==
    /\ fn = "_remove_extra_byte" /\ Len(out) < 2
    /\ out' = Append(out, Ok("str", _remove_extra_byte(
                                IF out = <<>> THEN arg ELSE out[Len(out)].val)))
    /\ UNCHANGED <<fn, arg, sessionVars, clientVars>>

Apply_bcdDigits ==
    /\ fn = "_bcdDigits" /\ out = <<>>
    /\ out' = <<Ok("list", _bcdDigits(arg))>>
    /\ UNCHANGED <<fn, arg, sessionVars, clientVars>>

ApplyDecodeDatetime ==
    /\ fn = "read_datetime" /\ out = <<>>
    /\ out' = <<DecodeDatetime(arg)>>
    /\ UNCHANGED <<fn, arg, sessionVars, clientVars>>

NextCodec == Apply_add_checksum \/ Apply_remove_extra_byte \/ Apply_bcdDigits
             \/ ApplyDecodeDatetime

SpecCodec == InitCodec /\ [][NextCodec]_vars

----------------------------------------------------------------------------
(* Properties of the codec, checked under SpecCodec *)

IsEvenHex(h) == Len(h) % 2 = 0 /\ \A i \in 1..Len(h) : IsHexChar(h[i])
\* byte k of the even-length hex string h
ByteOfHex(h, k) == 16 * HexVal(h[2 * k - 1]) + HexVal(h[2 * k])
ByteSum(h) == SumSeq([k \in 1..(Len(h) \div 2) |-> ByteOfHex(h, k)])

\* C5: for every even-length hex string h, _add_checksum(h) returns len(h)/2 + 1
\* bytes: the bytes of h followed by (sum of the bytes of h) mod 256.
C5_ChecksumAppended ==
    (fn = "_add_checksum" /\ out # <<>> /\ IsEvenHex(arg)) =>
        /\ out[1].kind = "bytes"
        /\ Len(out[1].val) = (Len(arg) \div 2) + 1
        /\ \A k \in 1..(Len(arg) \div 2) : out[1].val[k] = ByteOfHex(arg, k)
        /\ out[1].val[Len(out[1].val)] = ByteSum(arg) % 256

\* a payload whose byte sum exceeds 256 has been framed
C5_Witness ==
    /\ fn = "_add_checksum" /\ out # <<>> /\ IsEvenHex(arg)
    /\ ByteSum(arg) > 256
    /\ out[1].kind = "bytes"

\* nibbles of a byte sequence, high then low
NibbleAt(bs, i) == IF i % 2 = 1 THEN bs[(i + 1) \div 2] \div 16
                   ELSE bs[i \div 2] % 16
\* number of nibbles before the first 0xF nibble
NibblesBeforeF(bs) ==
    IF \E i \in 1..(2 * Len(bs)) : NibbleAt(bs, i) = 15
    THEN (CHOOSE i \in 1..(2 * Len(bs)) :
              /\ NibbleAt(bs, i) = 15
              /\ \A j \in 1..(i - 1) : NibbleAt(bs, j) # 15) - 1
    ELSE 2 * Len(bs)

\* C6 as stated: _bcdDigits yields one decimal digit character per nibble, high
\* then low, up to but not including the first 0xF nibble, and nothing after it.
C6_Original ==
    (fn = "_bcdDigits" /\ out # <<>>) =>
        /\ Len(out[1].val) = NibblesBeforeF(arg)
        /\ \A i \in 1..Len(out[1].val) :
              /\ Len(out[1].val[i]) = 1
              /\ IsDecChar(out[1].val[i][1])
              /\ out[1].val[i][1] - 48 = NibbleAt(arg, i)

\* C6 amended: _bcdDigits yields the decimal text of each nibble, high then low
\* (one digit character for 0..9, the two characters "10".."14" for 0xA..0xE),
\* up to but not including the first 0xF nibble, and nothing after it.
C6_BcdDigits ==
    (fn = "_bcdDigits" /\ out # <<>>) =>
        /\ Len(out[1].val) = NibblesBeforeF(arg)
        /\ \A i \in 1..Len(out[1].val) :
              LET v == NibbleAt(arg, i)
              IN  out[1].val[i] = IF v < 10 THEN <<48 + v>> ELSE <<49, 48 + (v - 10)>>

\* two bytes decoded, the terminator in the high nibble of the second byte
C6_Witness ==
    /\ fn = "_bcdDigits" /\ out # <<>>
    /\ Len(arg) = 2 /\ NibbleAt(arg, 3) = 15 /\ NibbleAt(arg, 4) # 15
    /\ Len(out[1].val) = 2

\* C7: _remove_extra_byte drops the first byte of an input that begins with two
\* 0x00 bytes ("0000") and returns every other input unchanged.
C7_RemoveExtraByte ==
    (fn = "_remove_extra_byte" /\ out # <<>>) =>
        out[1].val = IF Len(arg) >= 4 /\ SubSeq(arg, 1, 4) = <<48, 48, 48, 48>>
                     THEN SubSeq(arg, 3, Len(arg))
                     ELSE arg

\* C8: _remove_extra_byte applied to its own result returns that result.
C8_Idempotent ==
    (fn = "_remove_extra_byte" /\ Len(out) = 2) => out[2].val = out[1].val

\* applied twice to an input that begins with three 0x00 bytes
C8_Witness ==
    /\ fn = "_remove_extra_byte" /\ Len(out) = 2
    /\ Len(arg) >= 6 /\ \A i \in 1..6 : arg[i] = 48

\* the two-digit BCD number in byte b, -1 if a nibble is no decimal digit
BcdField(b) == IF b \div 16 <= 9 /\ b % 16 <= 9 THEN 10 * (b \div 16) + (b % 16)
               ELSE -1
\* the date-time a 10-byte reply r carries, <<>> if it carries none
CarriedDatetime(r) ==
    LET dd == BcdField(r[3])  mm == BcdField(r[4])  yy == BcdField(r[5])
        hh == BcdField(r[6])  mi == BcdField(r[7])  ss == BcdField(r[8])
    IN  IF /\ yy \in 0..99 /\ mm \in 1..12 /\ hh \in 0..23 /\ mi \in 0..59
           /\ ss \in 0..59
           /\ dd >= 1
           /\ dd <= (IF mm = 2 THEN (IF yy % 4 = 0 THEN 29 ELSE 28)
                     ELSE IF mm \in {4, 6, 9, 11} THEN 30 ELSE 31)
        THEN <<2000 + yy, mm, dd, hh, mi, ss>>
        ELSE <<>>

\* C9: for every 10-byte reply whose bytes 2..7 hold the BCD digits DD MM YY hh
\* mm ss of a valid date-time, read_datetime returns 2000+YY-MM-DD hh:mm:ss.
C9_DecodesDatetime ==
    (/\ fn = "read_datetime" /\ out # <<>>
     /\ arg.kind = "bytes" /\ Len(arg.val) = 10
     /\ CarriedDatetime(arg.val) # <<>>) =>
        out[1] = Ok("datetime", CarriedDatetime(arg.val))

HasTerminator(r) == \E i \in 3..Min(8, Len(r)) : r[i] \div 16 = 15 \/ r[i] % 16 = 15

\* C10: whenever the read fails (no reply, an empty reply, a reply shorter than
\* 10 bytes, a 0xF nibble in the date field) read_datetime returns
\* 0001-01-01 00:00:00.
C10_SentinelOnFailure ==
    (/\ fn = "read_datetime" /\ out # <<>>
     /\ \/ arg.kind = "False"
        \/ arg.kind = "bytes" /\ (Len(arg.val) < 10 \/ HasTerminator(arg.val))) =>
        out[1] = Ok("datetime", <<1, 1, 1, 0, 0, 0>>)

----------------------------------------------------------------------------
(* Properties of the client, checked under Spec *)

InSendToDevice(t) ==
    pc[t] \in {"connect", "handshake", "ack", "send", "recv", "close", "return"}

\* C1: on every path on which _send_to_device returns (connect timeout, empty
\* acknowledgment, normal exchange) every socket the call opened is closed;
\* between operations the client owns no open socket.
C1_SocketsClosed ==
    \A t \in active :
        (pc[t] \in {"idle", "return", "done"} /\ result[t].kind # "raise") =>
            \A i \in 1..Len(sockets) :
                sockets[i].owner = t => sockets[i].state = "closed"

\* C2: whatever the transport does, an operation that reached the transport
\* ends by returning a value, never by raising an exception.
C2_NeverRaises ==
    \A t \in active :
        (pc[t] = "done" /\ trace[t] # <<>>) => result[t].kind # "raise"

\* the sends and reads thread t has made on its current socket, in order
IO(t) == SelectSeq(trace[t], LAMBDA e : e.sock = tcp_conn[t] /\ e.ev \in {"send", "recv"})

\* C3: with an access code, the encoded access code is the first data sent, a
\* read of up to 12 bytes follows, and the command message is sent only after
\* that read returned a non-empty acknowledgment; an empty acknowledgment ends
\* the call with False and nothing more is sent. Without an access code the
\* command message is the first data sent and no acknowledgment is read.
C3_HandshakeOrder ==
    \A t \in active :
        InSendToDevice(t) =>
            LET io == IO(t)
            IN  IF access_code # <<>>
                THEN /\ Len(io) >= 1 =>
                          io[1].ev = "send" /\ io[1].data = Utf8Encode(access_code)
                     /\ Len(io) >= 2 => io[2].ev = "recv" /\ io[2].n = 12
                     /\ Len(io) >= 3 =>
                          /\ io[2].outcome = "ok" /\ io[2].data # <<>>
                          /\ io[3].ev = "send" /\ io[3].data = frame[t].message
                     /\ (Len(io) >= 2 /\ io[2].outcome = "ok" /\ io[2].data = <<>>) =>
                          /\ Len(io) = 2
                          /\ pc[t] = "return" /\ response[t] = PyFalse
                     /\ \A i \in 4..Len(io) : io[i].ev = "recv"
                ELSE /\ Len(io) >= 1 =>
                          io[1].ev = "send" /\ io[1].data = frame[t].message
                     /\ \A i \in 2..Len(io) :
                          io[i].ev = "recv" /\ io[i].n = frame[t].response_size

\* the access code was acknowledged and the command message has been sent
C3_Witness ==
    \E t \in active :
        /\ access_code # <<>> /\ pc[t] = "recv"
        /\ Len(IO(t)) = 3 /\ IO(t)[3].data = frame[t].message

\* the replies to command messages thread t has read in the running operation
RepliesRead(t) ==
    LET r == SelectSeq(trace[t], LAMBDA e : e.ev = "recv" /\ e.n # 12 /\ e.outcome = "ok")
    IN  [i \in 1..Len(r) |-> r[i].data]

\* the replies that mean success
SuccessReplies(c) ==
    CASE c.op = "reset" -> <<<<0, 24, 24>>>>
      [] c.op = "refresh_rx" -> <<<<0, 29, 0, 29>>>>
      [] c.op = "write_id_str" /\ c.which_row = 2 -> <<<<0, 1, 1>>>>
      [] c.op = "write_id_str" /\ c.which_row = 3 -> <<<<0, 2, 2>>>>
      [] OTHER -> <<<<0, 1, 1>>, <<0, 2, 2>>>>

\* C4: reset, refresh_rx and write_id_str return True if and only if the reply
\* read (for both rows: each of the two replies) equals the operation's success
\* constant, and False otherwise.
C4_BooleanSuccess ==
    \A t \in active :
        (/\ pc[t] = "done" /\ result[t].kind # "raise"
         /\ call[t].op \in {"reset", "refresh_rx", "write_id_str"}) =>
            /\ result[t] \in {PyTrue, PyFalse}
            /\ result[t] = PyTrue <=>
                  /\ call[t].op = "write_id_str" => call[t].which_row \in {0, 2, 3}
                  /\ RepliesRead(t) = SuccessReplies(call[t])

\* write_id_str for both rows returned True
C4_Witness ==
    \E t \in active :
        /\ pc[t] = "done" /\ call[t].op = "write_id_str" /\ call[t].which_row = 0
        /\ result[t] = PyTrue

\* C11: write_id_str with a row2 or row3 of more than 20 characters returns
\* False, whatever which_row and timeout are, without building a frame and
\* without opening a socket, connecting, sending or receiving.
C11_LongRowNoNetwork ==
    \A t \in active :
        (/\ call[t].op = "write_id_str"
         /\ (Len(call[t].row2) > 20 \/ Len(call[t].row3) > 20)) =>
            /\ pc[t] = "done" /\ result[t] = PyFalse
            /\ frame[t] = NoFrame
            /\ trace[t] = <<>> /\ tcp_conn[t] = 0

\* row 2 alone was asked for, row2 is short and row3 is too long
C11_Witness ==
    \E t \in active :
        /\ call[t].op = "write_id_str" /\ call[t].which_row = 2
        /\ Len(call[t].row2) <= 20 /\ Len(call[t].row3) > 20
        /\ pc[t] = "done" /\ result[t] = PyFalse

RECURSIVE CommandSendsFrom(_, _)
\* the data of the sends in tr, from event i on, that are not the access code
\* (with an access code, a command message is sent right after the
\* acknowledgment was read)
CommandSendsFrom(tr, i) ==
    IF i > Len(tr) THEN <<>>
    ELSE (IF /\ tr[i].ev = "send"
             /\ (access_code = <<>> \/ (i > 1 /\ tr[i - 1].ev = "recv"))
          THEN <<tr[i].data>> ELSE <<>>) \o CommandSendsFrom(tr, i + 1)

\* the command messages thread t has transmitted in the running operation
CommandSends(t) == CommandSendsFrom(trace[t], 1)

IsPrefix(a, b) == Len(a) <= Len(b) /\ a = SubSeq(b, 1, Len(a))

\* C12: write_id_str transmits, for which_row = 2, only checksum("0001" + row2);
\* for which_row = 3, only checksum("0002" + row3); for which_row = 0,
\* checksum("0001" + row2) and then checksum("0002" + row3).  (Stated for rows
\* from which both frames can be built.)
C12_RowSelection ==
    \A t \in active :
        LET c == call[t]
            f2 == _add_checksum(S0001 \o c.row2)
            f3 == _add_checksum(S0002 \o c.row3)
        IN  (/\ c.op = "write_id_str" /\ Len(c.row2) <= 20 /\ Len(c.row3) <= 20
             /\ f2.kind = "bytes" /\ f3.kind = "bytes") =>
                /\ c.which_row = 2 => IsPrefix(CommandSends(t), <<f2.val>>)
                /\ c.which_row = 3 => IsPrefix(CommandSends(t), <<f3.val>>)
                /\ c.which_row = 0 => IsPrefix(CommandSends(t), <<f2.val, f3.val>>)

\* the timeout an operation gives to _send_to_device, from its own arguments
\* and the instance's default_timeout alone
TimeoutOf(c) ==
    CASE c.op = "reboot" -> 3
      [] c.op = "refresh_rx" -> c.timeout
      [] OTHER -> IF c.timeout = 0 THEN default_timeout ELSE c.timeout

\* C13: no step changes d_address, d_port, access_code or default_timeout, and
\* the timeout every socket of an operation is given depends on that call's own
\* arguments and on default_timeout only, not on the calls made before it.
C13_SessionUnchanged ==
    /\ [][sessionVars' = sessionVars]_vars
    /\ [](\A t \in active : \A i \in 1..Len(trace[t]) :
            trace[t][i].ev = "settimeout" => trace[t][i].n = TimeoutOf(call[t]))

\* a second operation, called without a timeout after an operation that used the
\* transport, has given default_timeout to its socket
C13_Witness ==
    \E t \in active :
        /\ ncalls = 2 /\ Len(sockets) >= 2
        /\ call[t].op = "reset" /\ call[t].timeout = 0
        /\ trace[t] # <<>> /\ trace[t][1].ev = "settimeout"
        /\ trace[t][1].n = default_timeout

\* C14: the timeout given to the socket is default_timeout when the call's
\* timeout is 0 and the call's timeout otherwise (write_id_str, read_id_str,
\* write_datetime, read_datetime, reset, read_rxfm_version), always 3 for reboot,
\* and for refresh_rx 15 unless a non-zero timeout is given; it is never 0.
C14_EffectiveTimeout ==
    \A t \in active : \A i \in 1..Len(trace[t]) :
        trace[t][i].ev = "settimeout" =>
            /\ trace[t][i].n # 0
            /\ trace[t][i].n =
                  CASE call[t].op = "reboot" -> 3
                    [] call[t].op = "refresh_rx" ->
                         IF call[t].timeout = 0 THEN 15 ELSE call[t].timeout
                    [] OTHER ->
                         IF call[t].timeout = 0 THEN default_timeout
                         ELSE call[t].timeout

\* event i of tr sends a command message (not the access code)
IsCommandSend(tr, i) ==
    /\ tr[i].ev = "send"
    /\ (access_code = <<>> \/ (i > 1 /\ tr[i - 1].ev = "recv"))
\* event i of tr reads on a socket on which the command message was sent
IsReplyRecv(tr, i) ==
    /\ tr[i].ev = "recv"
    /\ \E j \in 1..(i - 1) : IsCommandSend(tr, j) /\ tr[j].sock = tr[i].sock

\* C15: on each socket there is at most one connect, the command message is
\* sent at most once and at most one read is issued for the reply; what that
\* read returned, however short, is what _send_to_device returns.
C15_NoRetry ==
    \A t \in active :
        LET tr == trace[t]
            on(s) == {i \in 1..Len(tr) : tr[i].sock = s}
        IN  /\ \A s \in {tr[i].sock : i \in 1..Len(tr)} :
                  /\ Cardinality({i \in on(s) : tr[i].ev = "connect"}) <= 1
                  /\ Cardinality({i \in on(s) : IsCommandSend(tr, i)}) <= 1
                  /\ Cardinality({i \in on(s) : IsReplyRecv(tr, i)}) <= 1
            /\ \A i \in 1..Len(tr) :
                  (/\ IsReplyRecv(tr, i) /\ tr[i].outcome = "ok"
                   /\ tr[i].sock = tcp_conn[t] /\ InSendToDevice(t)) =>
                      /\ pc[t] \in {"close", "return"}
                      /\ response[t] = Ok("bytes", tr[i].data)

\* _send_to_device has returned a reply shorter than response_size
C15_Witness ==
    \E t \in active :
        /\ pc[t] = "return" /\ response[t].kind = "bytes"
        /\ Len(response[t].val) > 0
        /\ Len(response[t].val) < frame[t].response_size
        /\ Cardinality({i \in 1..Len(trace[t]) : IsReplyRecv(trace[t], i)}) = 1

\* C16: every command message handed to _send_to_device has at least 3 bytes
\* and its last byte is the sum of the bytes before it mod 256.
C16_FrameChecksum ==
    \A t \in active :
        frame[t] # NoFrame =>
            LET m == frame[t].message
            IN  /\ Len(m) >= 3
                /\ m[Len(m)] = SumSeq(SubSeq(m, 1, Len(m) - 1)) % 256

\* C17: for write_id_str with rows of at most 20 characters and for
\* read_rxfm_version, the payload given to _add_checksum is an even-length
\* string of hex digits and the call never ends in an exception raised while
\* the frame is built (before any socket exists).
C17_BuilderNeverFails ==
    \A t \in active :
        LET c == call[t]
        IN  /\ (c.op = "write_id_str" /\ Len(c.row2) <= 20 /\ Len(c.row3) <= 20) =>
                   /\ IsEvenHex(S0001 \o c.row2)
                   /\ ~(pc[t] = "done" /\ result[t].kind = "raise" /\ trace[t] = <<>>)
            /\ c.op = "read_rxfm_version" =>
                   /\ IsEvenHex(S003d \o <<CH_0>> \o str(c.dev_type)
                                 \o <<CH_0>> \o str(c.dev_can_address - 1))
                   /\ ~(pc[t] = "done" /\ result[t].kind = "raise" /\ trace[t] = <<>>)

\* what _send_to_device returned according to the events of thread t alone
OwnResponse(t) ==
    LET tr == trace[t]
        reads == {i \in 1..Len(tr) : /\ IsReplyRecv(tr, i) /\ tr[i].outcome = "ok"
                                      /\ tr[i].sock = tcp_conn[t]}
    IN  IF reads = {} THEN PyFalse
        ELSE Ok("bytes", tr[CHOOSE i \in reads : \A j \in reads : j <= i].data)

\* C18: with two operations running at the same time on one instance, every
\* socket event of a call is on a socket that call opened, what
\* _send_to_device returns to a call and the result of the call follow from
\* the bytes read on its own connection, and no step changes d_address,
\* d_port, access_code or default_timeout.
C18_IndependentCalls ==
    /\ [](\A t \in active :
            /\ \A i \in 1..Len(trace[t]) :
                  /\ trace[t][i].sock \in 1..Len(sockets)
                  /\ sockets[trace[t][i].sock].owner = t
            /\ \A u \in active \ {t} :
                  (tcp_conn[t] # 0 /\ tcp_conn[u] # 0) => tcp_conn[t] # tcp_conn[u]
            /\ pc[t] = "return" => response[t] = OwnResponse(t)
            /\ (pc[t] = "done" /\ trace[t] # <<>> /\ result[t].kind # "raise") =>
                  result[t] = Resume(call[t], frame[t], OwnResponse(t)).result)
    /\ [][d_address' = d_address /\ d_port' = d_port /\ access_code' = access_code
           /\ default_timeout' = default_timeout]_vars

\* both threads are inside _send_to_device at once, each with its socket still
\* open and its own reply read, and the replies differ
C18_Witness ==
    /\ pc[1] = "close" /\ pc[2] = "close"
    /\ sockets[tcp_conn[1]].state = "open" /\ sockets[tcp_conn[2]].state = "open"
    /\ response[1].kind = "bytes" /\ response[2].kind = "bytes"
    /\ response[1] # response[2]

\* the settimeout events of tr: one for each socket the call created
SocketsOpened(tr) == SelectSeq(tr, LAMBDA e : e.ev = "settimeout")

\* C19: in write_id_str with which_row = 0 the second socket is created only
\* after the first one was closed and its reply read as 00 01 01, and the row-3
\* frame is sent on the second socket only; with which_row outside {0, 2, 3}
\* the call ends with False and no socket.
C19_SequentialRows ==
    \A t \in active :
        LET c == call[t]
            tr == trace[t]
            opened == SocketsOpened(tr)
        IN  c.op = "write_id_str" =>
              /\ Len(opened) <= (IF c.which_row = 0 THEN 2 ELSE 1)
              /\ Len(opened) = 2 =>
                    LET s1 == opened[1].sock
                        s2 == opened[2].sock
                    IN  /\ s1 # s2 /\ sockets[s1].state = "closed"
                        /\ \E i \in 1..Len(tr) :
                              /\ IsReplyRecv(tr, i) /\ tr[i].sock = s1
                              /\ tr[i].outcome = "ok" /\ tr[i].data = <<0, 1, 1>>
                        /\ \A i \in 1..Len(tr) :
                              (IsCommandSend(tr, i) /\ tr[i].sock = s2) =>
                                 /\ tr[i].data = _add_checksum(S0002 \o c.row3).val
                                 /\ \E j \in 1..(i - 1) :
                                       tr[j].ev = "close" /\ tr[j].sock = s1
              /\ c.which_row \notin {0, 2, 3} =>
                    pc[t] = "done" /\ result[t] = PyFalse /\ tr = <<>>

\* C20: read_rxfm_version sends 00 3d, dev_type, address - 1 and their sum
\* mod 256, asks for 11 bytes, and returns the ASCII text of reply bytes 4..8
\* of a full reply, and "" when the transport fails or nothing is read.
C20_RxfmVersion ==
    \A t \in active :
        LET c == call[t]
        IN  c.op = "read_rxfm_version" =>
              /\ frame[t] # NoFrame
              /\ frame[t].message = <<0, 61, c.dev_type, c.dev_can_address - 1,
                                       (61 + c.dev_type + c.dev_can_address - 1) % 256>>
              /\ frame[t].response_size = 11
              /\ pc[t] = "done" =>
                    /\ result[t].kind = "str"
                    /\ (response[t].kind = "bytes" /\ Len(response[t].val) = 11) =>
                          result[t].val = SubSeq(response[t].val, 5, 9)
                    /\ ~Truthy(response[t]) => result[t].val = <<>>

====
